---- MODULE Spec2Model ----
(***************************************************************************)
(* Model of the book-structure pipeline of Asalbek/Json-Task:              *)
(*   StructureExtractor.extract_structure  (src/structure_extractor.py)    *)
(*   StructureExtractor.extract_content    (src/structure_extractor.py)    *)
(*   BookProcessor.process_book            (src/Bookprocessor.py)          *)
(*                                                                         *)
(* A Python str is a sequence of one-character strings.  TLA+ string       *)
(* literals are ASCII only, so the Cyrillic letters of the chapter word    *)
(* are written with these stand-ins, which occur nowhere else:             *)
(*   "G" = U+0413 (capital GHE)   "g" = U+0433 (small ghe)                 *)
(*   "l" = U+043B (small el)      "a" = U+0430 (small a)                   *)
(*   "v" = U+0432 (small ve)                                               *)
(* Latin letters of titles and bodies are "t", "T" and "x".                *)
(* Whitespace is the blank, "\n", "\t", "\r", "\f", U+000B and U+001C to    *)
(* U+001F; the non-ASCII characters Python also counts as whitespace       *)
(* (U+0085, U+00A0 and the further Unicode blanks) cannot be written as    *)
(* one character of a TLA+ string and are not among the characters of the  *)
(* model.                                                                  *)
(* A Python dict is a sequence of records with a `key` field, in insertion *)
(* order.  An optional value (None, or a dict key that may be absent) is   *)
(* <<>> when absent and <<v>> when present.                                *)
(***************************************************************************)
EXTENDS Integers, Sequences, FiniteSets, TLC

(***************************************************************************)
(* Characters and the character classes of Python's re module.             *)
(***************************************************************************)
IsDigit(c) == c \in {"0", "1", "2", "3", "4", "5", "6", "7", "8", "9"}

\* \s and str.strip: the blank, \n, \t, \r, \f, and, written raw, U+000B and
\* U+001C to U+001F.
IsSpace(c) == c \in {" ", "\n", "\t", "\r", "\f", "", "", "", "", ""}

\* re.IGNORECASE: two characters match when their case folds agree.
Fold(c) == CASE c = "G" -> "g"
             [] c = "T" -> "t"
             [] OTHER -> c

\* The literal word of the chapter patterns.
ChapterWord == <<"G", "l", "a", "v", "a">>

Min(a, b) == IF a < b THEN a ELSE b

\* Python slice s[a:b] for 0 <= a, 0 <= b (0-based, b exclusive, clipped).
Slice(s, a, b) == SubSeq(s, a + 1, Min(b, Len(s)))

\* 1-based index just past the longest run of digits starting at index i.
RECURSIVE DigitsEnd(_, _)
DigitsEnd(s, i) == IF i <= Len(s) /\ IsDigit(s[i]) THEN DigitsEnd(s, i + 1) ELSE i

\* 1-based index just past the longest run of whitespace starting at index i.
RECURSIVE SpaceEnd(_, _)
SpaceEnd(s, i) == IF i <= Len(s) /\ IsSpace(s[i]) THEN SpaceEnd(s, i + 1) ELSE i

\* 1-based index just past the longest run of non-newline characters: (.*)
RECURSIVE DotStarEnd(_, _)
DotStarEnd(s, i) == IF i <= Len(s) /\ s[i] # "\n" THEN DotStarEnd(s, i + 1) ELSE i

\* Does the word w occur in s at index i, ignoring case?
WordAt(s, i, w) ==
    /\ i + Len(w) - 1 <= Len(s)
    /\ \A k \in 1..Len(w) : Fold(s[i + k - 1]) = Fold(w[k])

(***************************************************************************)
(* StructureExtractor: the parsing helpers.                                *)
(***************************************************************************)
\* str.strip(): drop leading and trailing whitespace.
RECURSIVE RStrip(_)
RStrip(s) == IF Len(s) > 0 /\ IsSpace(s[Len(s)]) THEN RStrip(SubSeq(s, 1, Len(s) - 1)) ELSE s

Strip(s) == RStrip(SubSeq(s, SpaceEnd(s, 1), Len(s)))

\* re.sub(r'\s+', ' ', text): every whitespace run becomes one space.
RECURSIVE CollapseFrom(_, _)
CollapseFrom(s, i) ==
    IF i > Len(s) THEN <<>>
    ELSE IF IsSpace(s[i]) THEN <<" ">> \o CollapseFrom(s, SpaceEnd(s, i))
    ELSE <<s[i]>> \o CollapseFrom(s, i + 1)

clean_text(text) == Strip(CollapseFrom(text, 1))

\* (\.\d+)* : index just past the longest run of ".digits" groups from i.
RECURSIVE DotGroupsEnd(_, _)
DotGroupsEnd(s, i) ==
    IF i + 1 <= Len(s) /\ s[i] = "." /\ IsDigit(s[i + 1])
    THEN DotGroupsEnd(s, DigitsEnd(s, i + 1))
    ELSE i

\* _parse_chapter under the fallback policy: a title without a numeral is
\* its own number.
parse_chapter_Fallback(title) ==
    LET start == IF WordAt(title, 1, ChapterWord)
                 THEN SpaceEnd(title, Len(ChapterWord) + 1) ELSE 1
        numEnd == DigitsEnd(title, start)
    IN IF numEnd > start
       THEN <<SubSeq(title, start, numEnd - 1),
              clean_text(SubSeq(title, numEnd, DotStarEnd(title, numEnd) - 1))>>
       ELSE <<clean_text(title), clean_text(title)>>

\* re.match(r'(Глава\s*)?(\d+)\.?\s*(.*)', title, re.IGNORECASE):
\* <<chapter number, cleaned title>>, the number "" when there is no match.
parse_chapter(title) ==
    LET afterWord == IF WordAt(title, 1, ChapterWord)
                     THEN SpaceEnd(title, Len(ChapterWord) + 1) ELSE 1
        \* the optional group is given up when no digit follows it
        numStart == IF afterWord <= Len(title) /\ IsDigit(title[afterWord])
                    THEN afterWord ELSE 1
        numEnd == DigitsEnd(title, numStart)
        afterDot == IF numEnd <= Len(title) /\ title[numEnd] = "."
                    THEN numEnd + 1 ELSE numEnd
        restStart == SpaceEnd(title, afterDot)
        restEnd == DotStarEnd(title, restStart)
    IN IF numEnd > numStart
       THEN <<SubSeq(title, numStart, numEnd - 1),
              clean_text(SubSeq(title, restStart, restEnd - 1))>>
       ELSE <<<<>>, clean_text(title)>>

\* re.match(r'^(\d+(\.\d+)*\.?)\s+(.*)', title):
\* <<numbering, cleaned title>>, the numbering "" when there is no match.
parse_section(title) ==
    LET firstEnd == DigitsEnd(title, 1)
        groupsEnd == DotGroupsEnd(title, firstEnd)
        numEnd == IF groupsEnd <= Len(title) /\ title[groupsEnd] = "."
                  THEN groupsEnd + 1 ELSE groupsEnd
        restStart == SpaceEnd(title, numEnd)
        restEnd == DotStarEnd(title, restStart)
    IN IF firstEnd > 1 /\ restStart > numEnd
       THEN <<SubSeq(title, 1, numEnd - 1),
              clean_text(SubSeq(title, restStart, restEnd - 1))>>
       ELSE <<<<>>, clean_text(title)>>

\* '$' matches at the end of the string and before a final newline.
AtEnd(s, i) == i = Len(s) + 1 \/ (i = Len(s) /\ s[i] = "\n")

\* re.match(r'^\d+(\.\d+)?\.?$', section_num) is not None
is_section(section_num) ==
    LET firstEnd == DigitsEnd(section_num, 1)
        secondEnd == IF /\ firstEnd + 1 <= Len(section_num)
                        /\ section_num[firstEnd] = "."
                        /\ IsDigit(section_num[firstEnd + 1])
                     THEN DigitsEnd(section_num, firstEnd + 1) ELSE firstEnd
        numEnd == IF secondEnd <= Len(section_num) /\ section_num[secondEnd] = "."
                  THEN secondEnd + 1 ELSE secondEnd
    IN firstEnd > 1 /\ AtEnd(section_num, numEnd)

\* One mandatory "\.\d+" at i: the index past it, or 0 when it is not there.
DotGroup(s, i) ==
    IF i > 0 /\ i + 1 <= Len(s) /\ s[i] = "." /\ IsDigit(s[i + 1])
    THEN DigitsEnd(s, i + 1) ELSE 0

\* re.match(r'^\d+\.\d+\.\d+\.?$', section_num) is not None
is_subsection(section_num) ==
    LET firstEnd == DigitsEnd(section_num, 1)
        secondEnd == DotGroup(section_num, IF firstEnd > 1 THEN firstEnd ELSE 0)
        thirdEnd == DotGroup(section_num, secondEnd)
        numEnd == IF thirdEnd > 0 /\ thirdEnd <= Len(section_num) /\ section_num[thirdEnd] = "."
                  THEN thirdEnd + 1 ELSE thirdEnd
    IN thirdEnd > 0 /\ AtEnd(section_num, numEnd)

(***************************************************************************)
(* Python dicts as key-ordered sequences of records.                       *)
(***************************************************************************)
Keys(d) == {d[i].key : i \in 1..Len(d)}

HasKey(d, k) == \E i \in 1..Len(d) : d[i].key = k

\* Index of key k in d (k is a key of d).
IndexOf(d, k) == CHOOSE i \in 1..Len(d) : d[i].key = k

\* d[k] = v: an existing key keeps its place and gets the new value, a new
\* key goes last.  v carries its own key.
DictSet(d, v) ==
    IF HasKey(d, v.key) THEN [d EXCEPT ![IndexOf(d, v.key)] = v] ELSE Append(d, v)

(***************************************************************************)
(* StructureExtractor.extract_structure, one TOC entry at a time.          *)
(* The loop state is the record b:                                         *)
(*   structure, current_chapter, current_section, raised.                  *)
(***************************************************************************)
NewChapter(num, title, page) ==
    [key |-> num, title |-> title, start_page |-> page - 1, sections |-> <<>>,
     text |-> <<>>, length |-> <<>>, content |-> <<>>]

NewSection(num, title, page) ==
    [key |-> num, title |-> title, start_page |-> page - 1, subsections |-> <<>>,
     text |-> <<>>, length |-> <<>>, content |-> <<>>]

NewSubsection(num, title, page) ==
    [key |-> num, title |-> title, start_page |-> page - 1,
     text |-> <<>>, length |-> <<>>, content |-> <<>>]

BuilderStart ==
    [structure |-> <<>>, current_chapter |-> <<>>, current_section |-> <<>>,
     raised |-> FALSE]

\* The body of the for loop over toc, for the entry (level, title, page).
\* raised = TRUE stands for the KeyError of a subscript with a missing key.
LoopBody(b, level, title, page) ==
    LET chapter == IF level = 1 THEN parse_chapter(title) ELSE <<<<>>, <<>>>>
        section == IF level \in {2, 3} /\ b.current_chapter # <<>>
                   THEN parse_section(title) ELSE <<<<>>, <<>>>>
        chapter_num == chapter[1]
        section_num == section[1]
    IN IF chapter_num # <<>> THEN
           [b EXCEPT !.current_chapter = <<chapter_num>>,
                     !.structure = DictSet(@, NewChapter(chapter_num, chapter[2], page))]
       ELSE IF section_num # <<>> THEN
           LET ci == IndexOf(b.structure, b.current_chapter[1])
               sections == b.structure[ci].sections
           IN IF is_section(section_num) THEN
                  [b EXCEPT !.current_section = <<section_num>>,
                            !.structure[ci].sections =
                                DictSet(@, NewSection(section_num, section[2], page))]
              ELSE IF is_subsection(section_num) /\ b.current_section # <<>> THEN
                  IF HasKey(sections, b.current_section[1]) THEN
                      LET si == IndexOf(sections, b.current_section[1])
                      IN [b EXCEPT !.structure[ci].sections[si].subsections =
                              DictSet(@, NewSubsection(section_num, section[2], page))]
                  ELSE [b EXCEPT !.raised = TRUE]
              ELSE b
       ELSE b

\* extract_structure as a function of the whole TOC: the loop state after
\* the entries toc[1..n], stopping at the first raise.
RECURSIVE LoopState(_, _)
LoopState(toc, n) ==
    IF n = 0 THEN BuilderStart
    ELSE LET b == LoopState(toc, n - 1)
         IN IF b.raised THEN b ELSE LoopBody(b, toc[n][1], toc[n][2], toc[n][3])

extract_structure(toc) == LoopState(toc, Len(toc))

(***************************************************************************)
(* BookProcessor: heading patterns.  A pattern is a sequence of elements   *)
(*   <<"lit", c>>  the character c, ignoring case ((?i))                   *)
(*   <<"any", "">> '.', any character but a newline                        *)
(*   <<"ws", "">>  '\s*'                                                   *)
(***************************************************************************)
\* re.escape(title).replace('\\ ', '\\s*'): every character is escaped to
\* a literal, and an escaped space becomes \s*.
prepare_regex(title) ==
    [i \in 1..Len(title) |->
        IF title[i] = " " THEN <<"ws", "">> ELSE <<"lit", title[i]>>]

\* A key interpolated into the f-string unescaped: a '.' stays a wildcard.
RawRegex(num) ==
    [i \in 1..Len(num) |->
        IF num[i] = "." THEN <<"any", "">> ELSE <<"lit", num[i]>>]

\* rf"(?i)Глава\s*{chapter_num}\s*{chapter_title_regex}"
chapter_regex(chapter_num, title) ==
    [i \in 1..Len(ChapterWord) |-> <<"lit", ChapterWord[i]>>]
        \o <<<<"ws", "">>>> \o RawRegex(chapter_num)
        \o <<<<"ws", "">>>> \o prepare_regex(title)

\* rf"(?i){section_num}\s*{section_title_regex}", for subsections too
section_regex(section_num, title) ==
    RawRegex(section_num) \o <<<<"ws", "">>>> \o prepare_regex(title)

\* Backtracking match of pat[k..] at the 1-based index j of s: the index
\* just past the match, or 0 when there is none.  \s* is greedy.
RECURSIVE MatchEnd(_, _, _, _)
RECURSIVE WsMatchEnd(_, _, _, _, _)
MatchEnd(pat, k, s, j) ==
    IF k > Len(pat) THEN j
    ELSE IF pat[k][1] = "ws" THEN WsMatchEnd(pat, k, s, j, SpaceEnd(s, j))
    ELSE IF j > Len(s) THEN 0
    ELSE IF pat[k][1] = "any" THEN
        IF s[j] # "\n" THEN MatchEnd(pat, k + 1, s, j + 1) ELSE 0
    ELSE IF Fold(s[j]) = Fold(pat[k][2]) THEN MatchEnd(pat, k + 1, s, j + 1)
    ELSE 0

\* \s* at pat[k] taking s[j..n-1], the longest run first.
WsMatchEnd(pat, k, s, j, n) ==
    LET r == MatchEnd(pat, k + 1, s, n)
    IN IF r # 0 THEN r
       ELSE IF n > j THEN WsMatchEnd(pat, k, s, j, n - 1)
       ELSE 0

\* re.search(pat, s): the leftmost match as <<start, end>> in Python's
\* 0-based offsets (end exclusive), or <<>> for None.
RECURSIVE SearchFrom(_, _, _)
SearchFrom(pat, s, i) ==
    IF i > Len(s) + 1 THEN <<>>
    ELSE LET e == MatchEnd(pat, 1, s, i)
         IN IF e # 0 THEN <<i - 1, e - 1>> ELSE SearchFrom(pat, s, i + 1)

Search(pat, s) == SearchFrom(pat, s, 1)

\* _set_section_text that counts the characters of the untrimmed text.
set_section_text_RawLength(st, prev, section_text) ==
    LET length == Len(section_text)
    IN IF prev.level = "subsection" THEN
           LET ci == IndexOf(st, prev.chapter)
               si == IndexOf(st[ci].sections, prev.section)
               ui == IndexOf(st[ci].sections[si].subsections, prev.subsection)
           IN [st EXCEPT ![ci].sections[si].subsections[ui].text = <<section_text>>,
                         ![ci].sections[si].subsections[ui].length = <<length>>]
       ELSE IF prev.level = "section" THEN
           LET ci == IndexOf(st, prev.chapter)
               si == IndexOf(st[ci].sections, prev.section)
           IN [st EXCEPT ![ci].sections[si].text = <<section_text>>,
                         ![ci].sections[si].length = <<length>>]
       ELSE IF prev.level = "chapter" THEN
           LET ci == IndexOf(st, prev.chapter)
           IN [st EXCEPT ![ci].text = <<section_text>>,
                         ![ci].length = <<length>>]
       ELSE st

\* _set_section_text that stores a fresh dict for a chapter instead of adding
\* two keys to the existing one: the chapter's sections are gone.
set_section_text_Fresh(st, prev, section_text) ==
    LET length == Len(Strip(section_text))
    IN IF prev.level = "chapter" THEN
           LET ci == IndexOf(st, prev.chapter)
           IN [st EXCEPT ![ci].text = <<section_text>>,
                         ![ci].length = <<length>>,
                         ![ci].sections = <<>>]
       ELSE st

(***************************************************************************)
(* BookProcessor._set_section_text on the tree st.                         *)
(***************************************************************************)
set_section_text(st, prev, section_text) ==
    LET length == Len(Strip(section_text))
    IN IF prev.level = "subsection" THEN
           LET ci == IndexOf(st, prev.chapter)
               si == IndexOf(st[ci].sections, prev.section)
               ui == IndexOf(st[ci].sections[si].subsections, prev.subsection)
           IN [st EXCEPT ![ci].sections[si].subsections[ui].text = <<section_text>>,
                         ![ci].sections[si].subsections[ui].length = <<length>>]
       ELSE IF prev.level = "section" THEN
           LET ci == IndexOf(st, prev.chapter)
               si == IndexOf(st[ci].sections, prev.section)
           IN [st EXCEPT ![ci].sections[si].text = <<section_text>>,
                         ![ci].sections[si].length = <<length>>]
       ELSE IF prev.level = "chapter" THEN
           LET ci == IndexOf(st, prev.chapter)
           IN [st EXCEPT ![ci].text = <<section_text>>,
                         ![ci].length = <<length>>]
       ELSE st

(***************************************************************************)
(* Inputs of the hierarchy builder: the TOC entries doc.get_toc() yields.  *)
(***************************************************************************)
\* Largest number of TOC entries of one run.
MaxToc == 4

Levels == {1, 2, 3}


\* Titles of every shape the parsers tell apart.
Titles ==
    { <<"1", " ", "t">>,                               \* "1 t"
      <<"G", "l", "a", "v", "a", " ", "2">>,           \* "Глава 2"
      <<"t">>,                                         \* no numeral
      <<"1", ".", "1", " ", "t">>,                     \* "1.1 t"
      <<"1", ".", "2", ".", " ", "T", "", "\f", "t">>, \* "1.2. T", U+000B, "\ft"
      <<"1", ".", "1", ".", "1", " ", "t">>,           \* "1.1.1 t"
      <<"1", ".", "1", ".", "1", ".", "1", " ", "t">>, \* "1.1.1.1 t"
      <<"1", ".", "1">>,                               \* "1.1"
      <<"2", " ", "t", "\n", "x">> }                   \* "2 t\nx"

VARIABLES
    structure,        \* the tree: extract_structure's local, then self.structure
    current_chapter,  \* extract_structure: key of the current chapter, optional
    current_section,  \* extract_structure: key of the current section, optional
    entry,            \* extract_structure: (level, title, page) of the last iteration
    count,            \* extract_structure: number of TOC entries consumed
    bpc,              \* extract_structure: "loop", "returned" or "raised"
    text,             \* BookProcessor.text
    prev_match_end,   \* _match_structure: the cursor
    prev_level,       \* _match_structure: the active context
    pos,              \* _match_structure: <<chapter, section, subsection>> loop indices
    mpc,              \* BookProcessor: "init", "walk", "flush" or "done"
    located,          \* _match_structure: the match of every node searched so far
    assigned,         \* the _set_section_text calls so far: level and text[from:to]
    warnings,         \* the logging.warning records, in order
    doc_toc,          \* the TOC doc.get_toc() returns, when the input is fixed
    first,            \* what an earlier extract_structure call on doc_toc gave, optional
    doc,              \* extract_content: the page texts of the open document
    cpos,             \* extract_content: <<chapter, section, subsection>> loop indices
    end_page,         \* extract_content: end_page of the current chapter, optional
    section_end_page, \* extract_content: section_end_page of the current section, optional
    cpc,              \* extract_content: "idle", "walk", "returned" or "raised"
    result            \* the last _get_next_section_start call and its outcome, optional

builderVars == <<structure, current_chapter, current_section, entry, count, bpc>>

matchVars == <<text, prev_match_end, prev_level, pos, mpc, located, assigned, warnings>>

contentVars == <<doc, cpos, end_page, section_end_page, cpc, result>>

callVars == <<doc_toc, first, doc, cpos, end_page, section_end_page, cpc, result>>

vars == <<structure, current_chapter, current_section, entry, count, bpc,
          text, prev_match_end, prev_level, pos, mpc, located, assigned, warnings,
          doc_toc, first, doc, cpos, end_page, section_end_page, cpc, result>>

\* The loop state of extract_structure as LoopBody takes it.
BuilderState ==
    [structure |-> structure, current_chapter |-> current_chapter,
     current_section |-> current_section, raised |-> bpc = "raised"]

\* extract_content has not been called.
ContentIdle ==
    /\ doc = <<>>
    /\ cpos = <<1, 0, 0>>
    /\ end_page = <<>>
    /\ section_end_page = <<>>
    /\ cpc = "idle"
    /\ result = <<>>

\* No fixed TOC, no earlier call, no extract_content.
CallIdle ==
    /\ doc_toc = <<>>
    /\ first = <<>>
    /\ ContentIdle

\* The segmenter before process_book: BookProcessor.__init__ sets text = ''.
MatchIdle ==
    /\ text = <<>>
    /\ prev_match_end = 0
    /\ prev_level = [level |-> "start"]
    /\ pos = <<1, 0, 0>>
    /\ mpc = "init"
    /\ located = <<>>
    /\ assigned = <<>>
    /\ warnings = <<>>

\* extract_structure has opened the document and read the TOC.
Init ==
    /\ structure = <<>>
    /\ current_chapter = <<>>
    /\ current_section = <<>>
    /\ entry = <<>>
    /\ count = 0
    /\ bpc = "loop"
    /\ MatchIdle
    /\ CallIdle

\* One iteration of `for level, title, page in toc`.
ProcessEntry(level, title, page) ==
    /\ bpc = "loop"
    /\ count < MaxToc
    /\ LET b == LoopBody(BuilderState, level, title, page)
       IN /\ structure' = b.structure
          /\ current_chapter' = b.current_chapter
          /\ current_section' = b.current_section
          /\ bpc' = IF b.raised THEN "raised" ELSE "loop"
    /\ entry' = <<level, title, page>>
    /\ count' = count + 1
    /\ UNCHANGED matchVars
    /\ UNCHANGED callVars

\* The TOC is exhausted: doc.close(); return structure.
Return ==
    /\ bpc = "loop"
    /\ bpc' = "returned"
    /\ UNCHANGED <<structure, current_chapter, current_section, entry, count>>
    /\ UNCHANGED matchVars
    /\ UNCHANGED callVars

\* The TOC of a book whose k-th entry starts on page k.
Next ==
    \/ \E level \in Levels, title \in Titles :
           ProcessEntry(level, title, count + 1)
    \/ Return

Spec == Init /\ [][Next]_vars

(***************************************************************************)
(* Inputs of the text segmenter: trees extract_structure returns, and the  *)
(* text _extract_text joins from the pages.                                *)
(***************************************************************************)
\* Largest number of segments joined into one text.
MaxSegs == 4

E_ch1 == <<1, <<"1", " ", "t">>>>                                   \* "1 t"
E_ch2 == <<1, <<"G", "l", "a", "v", "a", " ", "2", ".", " ", "T", " ", " ", "t">>>>
                                                                    \* "Глава 2. T  t"
E_s11 == <<2, <<"1", ".", "1", " ", "t">>>>                         \* "1.1 t"
E_s12 == <<2, <<"1", ".", "2", ".", " ", "t">>>>                    \* "1.2. t"
E_ss111 == <<3, <<"1", ".", "1", ".", "1", " ", "t">>>>             \* "1.1.1 t"

\* The (level, title) list es as a TOC whose k-th entry starts on page k.
Paged(es) == [k \in 1..Len(es) |-> <<es[k][1], es[k][2], k>>]

\* The TOCs whose trees the segmenter is run on.
MatchTocs ==
    { Paged(<<E_ch1, E_s11>>),
      Paged(<<E_ch1, E_s11, E_ss111>>),
      Paged(<<E_ch1, E_s11, E_s12>>),
      Paged(<<E_ch1, E_s11, E_ch2>>),
      Paged(<<E_ch1, E_ch2, E_s12>>) }

\* Page texts: headings as they are printed, body text, a blank page (a
\* form feed) and a page without text.
Segs ==
    { <<"g", "l", "a", "v", "a", " ", "1", "\n", "t">>,   \* "глава 1\nt"
      <<"G", "l", "a", "v", "a", "2", "T", "t">>,         \* "Глава2Tt"
      <<"1", ".", "1", "T">>,                             \* "1.1T"
      <<"1", ".", "2", " ", "t">>,                        \* "1.2 t"
      <<"1", ".", "1", ".", "1", " ", "t">>,              \* "1.1.1 t"
      <<"x">>,
      <<"\f">>,
      <<>> }

\* The documents: at most MaxSegs pages, each with one of the page texts.
PageLists == UNION {[1..n -> Segs] : n \in 0..MaxSegs}

\* Values of BookProcessor.start_page (1-based).
StartPages == {1, 2}

\* '\n'.join(text_list)
RECURSIVE JoinLines(_)
JoinLines(text_list) ==
    IF Len(text_list) = 0 THEN <<>>
    ELSE IF Len(text_list) = 1 THEN text_list[1]
    ELSE text_list[1] \o <<"\n">> \o JoinLines(Tail(text_list))

\* _extract_text: the texts of the pages from start_page on, those without
\* text left out, joined by newlines.
extract_text(pages, start_page) ==
    LET NonEmpty(page_text) == page_text # <<>>
    IN JoinLines(SelectSeq(SubSeq(pages, start_page, Len(pages)), NonEmpty))

(***************************************************************************)
(* BookProcessor._match_structure: the walk.  pos = <<ci, si, ui>> is the  *)
(* node searched next: chapter ci when si = 0, its section si when ui = 0, *)
(* else subsection ui of that section.                                     *)
(***************************************************************************)
\* The next iteration of the section loop of chapter ci, or of the chapter
\* loop when the sections are exhausted.
NextSection(st, ci, si) ==
    IF si < Len(st[ci].sections) THEN <<ci, si + 1, 0>> ELSE <<ci + 1, 0, 0>>

\* Where the walk goes after the chapter ci: into its sections when it was
\* found, and `continue` to the next chapter when it was not.
AfterChapter(st, ci, found) ==
    IF found /\ Len(st[ci].sections) > 0 THEN <<ci, 1, 0>> ELSE <<ci + 1, 0, 0>>

\* After the section si of chapter ci: into its subsections when it was
\* found, and `continue` to the next section when it was not.
AfterSection(st, ci, si, found) ==
    IF found /\ Len(st[ci].sections[si].subsections) > 0
    THEN <<ci, si, 1>> ELSE NextSection(st, ci, si)

AfterSubsection(st, ci, si, ui) ==
    IF ui < Len(st[ci].sections[si].subsections)
    THEN <<ci, si, ui + 1>> ELSE NextSection(st, ci, si)

\* SpanBefore with the cursor forgotten: the span starts at the text's start.
SpanBefore_FromStart(s, cursor, start) == Slice(s, 0, start)

\* The span handed to the previous level when a heading is found at start.
SpanBefore(s, cursor, start) == Slice(s, cursor, start)

\* ProcessPrevious without the test of line 93: the span is stored even
\* when nothing but whitespace is in it.
ProcessPrevious_NoBlankCheck(st, prev, s, cursor, m) ==
    set_section_text(st, prev, SpanBefore(s, cursor, m[1]))

\* "Process previous level": the tree after the heading match m is found.
ProcessPrevious(st, prev, s, cursor, m) ==
    LET section_text == SpanBefore(s, cursor, m[1])
    IN IF Strip(section_text) # <<>>
       THEN set_section_text(st, prev, section_text) ELSE st

\* The tree after "Process the last section".
ProcessLast(st, prev, s, cursor) ==
    IF cursor < Len(s) THEN set_section_text(st, prev, Slice(s, cursor, Len(s))) ELSE st

\* A tree extract_structure returned is held by a BookProcessor.
InitMatch ==
    /\ \E toc \in MatchTocs :
           /\ ~extract_structure(toc).raised
           /\ structure = extract_structure(toc).structure
    /\ current_chapter = <<>>
    /\ current_section = <<>>
    /\ entry = <<>>
    /\ count = 0
    /\ bpc = "returned"
    /\ MatchIdle
    /\ CallIdle

\* process_book: _extract_text leaves the joined page texts in self.text.
ExtractText ==
    /\ bpc = "returned"
    /\ mpc = "init"
    /\ \E pages \in PageLists, start_page \in StartPages :
           text' = extract_text(pages, start_page)
    /\ mpc' = "walk"
    /\ UNCHANGED <<prev_match_end, prev_level, pos, located, assigned, warnings>>
    /\ UNCHANGED builderVars
    /\ UNCHANGED callVars

\* SearchStep that makes the node the active context whether or not its
\* heading was found.
SearchStep_AlwaysActive(node, m, next) ==
    /\ located' = Append(located, [node |-> node, match |-> m])
    /\ pos' = next
    /\ prev_level' = node
    /\ IF m # <<>>
       THEN /\ structure' = ProcessPrevious(structure, prev_level, text, prev_match_end, m)
            /\ assigned' = IF Strip(SpanBefore(text, prev_match_end, m[1])) # <<>>
                            THEN Append(assigned, [node |-> prev_level,
                                                   from |-> prev_match_end, to |-> m[1]])
                            ELSE assigned
            /\ prev_match_end' = m[2]
            /\ UNCHANGED warnings
       ELSE /\ warnings' = Append(warnings, node)
            /\ UNCHANGED <<structure, assigned, prev_match_end>>
    /\ UNCHANGED <<text, mpc, current_chapter, current_section, entry, count, bpc>>
    /\ UNCHANGED callVars

\* SearchStep whose cursor never moves back: it stays where it is when the
\* heading is found before it.
SearchStep_ForwardCursor(node, m, next) ==
    /\ located' = Append(located, [node |-> node, match |-> m])
    /\ pos' = next
    /\ IF m # <<>>
       THEN /\ structure' = ProcessPrevious(structure, prev_level, text, prev_match_end, m)
            /\ assigned' = IF Strip(SpanBefore(text, prev_match_end, m[1])) # <<>>
                            THEN Append(assigned, [node |-> prev_level,
                                                   from |-> prev_match_end, to |-> m[1]])
                            ELSE assigned
            /\ prev_match_end' = IF m[2] > prev_match_end THEN m[2] ELSE prev_match_end
            /\ prev_level' = node
            /\ UNCHANGED warnings
       ELSE /\ warnings' = Append(warnings, node)
            /\ UNCHANGED <<structure, assigned, prev_match_end, prev_level>>
    /\ UNCHANGED <<text, mpc, current_chapter, current_section, entry, count, bpc>>
    /\ UNCHANGED callVars

\* SearchStep that keeps the first found node as the active context for the
\* rest of the walk.
SearchStep_StickyContext(node, m, next) ==
    /\ located' = Append(located, [node |-> node, match |-> m])
    /\ pos' = next
    /\ IF m # <<>>
       THEN /\ structure' = ProcessPrevious(structure, prev_level, text, prev_match_end, m)
            /\ assigned' = IF Strip(SpanBefore(text, prev_match_end, m[1])) # <<>>
                            THEN Append(assigned, [node |-> prev_level,
                                                   from |-> prev_match_end, to |-> m[1]])
                            ELSE assigned
            /\ prev_match_end' = m[2]
            /\ prev_level' = IF prev_level.level = "start" THEN node ELSE prev_level
            /\ UNCHANGED warnings
       ELSE /\ warnings' = Append(warnings, node)
            /\ UNCHANGED <<structure, assigned, prev_match_end, prev_level>>
    /\ UNCHANGED <<text, mpc, current_chapter, current_section, entry, count, bpc>>
    /\ UNCHANGED callVars

\* The effect of one search on the segmenter state, for the node `node`
\* with match m (<<>> when not found), going on at position next.
SearchStep(node, m, next) ==
    /\ located' = Append(located, [node |-> node, match |-> m])
    /\ pos' = next
    /\ IF m # <<>>
       THEN /\ structure' = ProcessPrevious(structure, prev_level, text, prev_match_end, m)
            /\ assigned' = IF Strip(SpanBefore(text, prev_match_end, m[1])) # <<>>
                            THEN Append(assigned, [node |-> prev_level,
                                                   from |-> prev_match_end, to |-> m[1]])
                            ELSE assigned
            /\ prev_match_end' = m[2]
            /\ prev_level' = node
            /\ UNCHANGED warnings
       ELSE /\ warnings' = Append(warnings, node)
            /\ UNCHANGED <<structure, assigned, prev_match_end, prev_level>>
    /\ UNCHANGED <<text, mpc, current_chapter, current_section, entry, count, bpc>>
    /\ UNCHANGED callVars

\* One iteration of the chapter loop, up to the section loop.
MatchChapter ==
    /\ mpc = "walk"
    /\ pos[1] <= Len(structure)
    /\ pos[2] = 0
    /\ LET ci == pos[1]
           ch == structure[ci]
           m == Search(chapter_regex(ch.key, ch.title), text)
       IN SearchStep([level |-> "chapter", chapter |-> ch.key], m,
                     AfterChapter(structure, ci, m # <<>>))

\* One iteration of the section loop, up to the subsection loop.
MatchSection ==
    /\ mpc = "walk"
    /\ pos[1] <= Len(structure)
    /\ pos[2] > 0
    /\ pos[3] = 0
    /\ LET ci == pos[1]
           si == pos[2]
           sec == structure[ci].sections[si]
           m == Search(section_regex(sec.key, sec.title), text)
       IN SearchStep([level |-> "section", chapter |-> structure[ci].key,
                      section |-> sec.key], m,
                     AfterSection(structure, ci, si, m # <<>>))

\* One iteration of the subsection loop.
MatchSubsection ==
    /\ mpc = "walk"
    /\ pos[1] <= Len(structure)
    /\ pos[3] > 0
    /\ LET ci == pos[1]
           si == pos[2]
           ui == pos[3]
           sec == structure[ci].sections[si]
           sub == sec.subsections[ui]
           m == Search(section_regex(sub.key, sub.title), text)
       IN SearchStep([level |-> "subsection", chapter |-> structure[ci].key,
                      section |-> sec.key, subsection |-> sub.key], m,
                     AfterSubsection(structure, ci, si, ui))

\* After the chapter loop: "Process the last section".
Flush ==
    /\ mpc = "walk"
    /\ pos[1] > Len(structure)
    /\ structure' = ProcessLast(structure, prev_level, text, prev_match_end)
    /\ assigned' = IF prev_match_end < Len(text)
                    THEN Append(assigned, [node |-> prev_level,
                                           from |-> prev_match_end, to |-> Len(text)])
                    ELSE assigned
    /\ mpc' = "done"
    /\ UNCHANGED <<text, prev_match_end, prev_level, pos, located, warnings>>
    /\ UNCHANGED <<current_chapter, current_section, entry, count, bpc>>
    /\ UNCHANGED callVars

NextMatch ==
    \/ ExtractText
    \/ MatchChapter
    \/ MatchSection
    \/ MatchSubsection
    \/ Flush

SpecMatch == InitMatch /\ [][NextMatch]_vars

(***************************************************************************)
(* Navigation of the tree, for the properties.  A node is named the way    *)
(* prev_level names it: its level and the keys on its path.                *)
(***************************************************************************)
ChapterPath(ch) == [level |-> "chapter", chapter |-> ch.key]

SectionPath(ch, sec) == [level |-> "section", chapter |-> ch.key, section |-> sec.key]

SubsectionPath(ch, sec, sub) ==
    [level |-> "subsection", chapter |-> ch.key, section |-> sec.key,
     subsection |-> sub.key]

\* The depth-first declaration walk of the tree st, as a sequence of nodes.
RECURSIVE SectionWalk(_, _)
SectionWalk(ch, si) ==
    IF si > Len(ch.sections) THEN <<>>
    ELSE LET sec == ch.sections[si]
         IN <<SectionPath(ch, sec)>>
            \o [u \in 1..Len(sec.subsections) |-> SubsectionPath(ch, sec, sec.subsections[u])]
            \o SectionWalk(ch, si + 1)

RECURSIVE WalkFrom(_, _)
WalkFrom(st, ci) ==
    IF ci > Len(st) THEN <<>>
    ELSE <<ChapterPath(st[ci])>> \o SectionWalk(st[ci], 1) \o WalkFrom(st, ci + 1)

Walk(st) == WalkFrom(st, 1)

AllNodes(st) == {Walk(st)[k] : k \in 1..Len(Walk(st))}

\* The record of the node n of the tree st.
NodeOf(st, n) ==
    LET ch == st[IndexOf(st, n.chapter)]
    IN IF n.level = "chapter" THEN ch
       ELSE LET sec == ch.sections[IndexOf(ch.sections, n.section)]
            IN IF n.level = "section" THEN sec
               ELSE sec.subsections[IndexOf(sec.subsections, n.subsection)]

\* The nodes below n.
Descendants(st, n) ==
    {d \in AllNodes(st) :
        /\ d # n
        /\ d.chapter = n.chapter
        /\ n.level # "subsection"
        /\ n.level = "section" => d.level = "subsection" /\ d.section = n.section}

\* The heading pattern _match_structure builds for the node n.
HeadingRegex(st, n) ==
    IF n.level = "chapter" THEN chapter_regex(n.chapter, NodeOf(st, n).title)
    ELSE section_regex(NodeOf(st, n).key, NodeOf(st, n).title)

HasText(st, n) == NodeOf(st, n).text # <<>>

IsSearched(n) == \E i \in 1..Len(located) : located[i].node = n

IsLocated(n) == \E i \in 1..Len(located) : located[i].node = n /\ located[i].match # <<>>

\* The tree without what the segmenter attaches.
Skeleton(st) ==
    [c \in 1..Len(st) |->
        [key |-> st[c].key, title |-> st[c].title, start_page |-> st[c].start_page,
         sections |->
            [x \in 1..Len(st[c].sections) |->
                LET sec == st[c].sections[x]
                IN [key |-> sec.key, title |-> sec.title, start_page |-> sec.start_page,
                    subsections |->
                        [u \in 1..Len(sec.subsections) |->
                            [key |-> sec.subsections[u].key,
                             title |-> sec.subsections[u].title,
                             start_page |-> sec.subsections[u].start_page]]]]]]

(***************************************************************************)
(* Properties of the text segmenter, checked under SpecMatch.              *)
(***************************************************************************)
\* The first occurrence of the heading of the k-th walked node in the text.
HeadingMatch(k) == Search(HeadingRegex(structure, Walk(structure)[k]), text)

\* Every heading occurs in the text, and the first occurrences do not
\* overlap and come in the order of the walk.
InOrder ==
    LET w == Walk(structure)
    IN /\ Len(w) > 0
       /\ \A k \in 1..Len(w) : HeadingMatch(k) # <<>>
       /\ \A k \in 1..(Len(w) - 1) : HeadingMatch(k)[2] <= HeadingMatch(k + 1)[1]

\* C1: in the in-order case, after the pass every node but the last holds
\* exactly the characters between the end of its heading and the start of
\* the next walked heading when they are not blank (and no text when they
\* are), the last walked node holds the tail after its heading when there is
\* one, and the text before the first heading is stored on no node.
C1_InOrderSpans ==
    (mpc = "done" /\ InOrder) =>
        LET w == Walk(structure)
        IN /\ \A k \in 1..Len(w) :
                LET nd == NodeOf(structure, w[k])
                    stop == IF k < Len(w) THEN HeadingMatch(k + 1)[1] ELSE Len(text)
                    body == Slice(text, HeadingMatch(k)[2], stop)
                    stored == IF k < Len(w) THEN Strip(body) # <<>> ELSE body # <<>>
                IN IF stored
                   THEN nd.text = <<body>> /\ nd.length = <<Len(Strip(body))>>
                   ELSE nd.text = <<>> /\ nd.length = <<>>
           /\ \A i \in 1..Len(assigned) :
                assigned[i].from < HeadingMatch(1)[2] => assigned[i].node.level = "start"

\* C1 witness: an in-order pass is over in which the first walked node
\* received its body and the last walked node the tail.
C1_Witness ==
    /\ mpc = "done"
    /\ InOrder
    /\ Len(Walk(structure)) >= 2
    /\ HasText(structure, Walk(structure)[1])
    /\ HasText(structure, Walk(structure)[Len(Walk(structure))])

\* C2: a node whose heading was never located holds neither `text` nor
\* `length`: whatever node holds one of them was searched and found, and its
\* heading pattern occurs in the text.
C2_NotLocatedNoText ==
    \A n \in AllNodes(structure) :
        (NodeOf(structure, n).text # <<>> \/ NodeOf(structure, n).length # <<>>) =>
            /\ IsLocated(n)
            /\ Search(HeadingRegex(structure, n), text) # <<>>

\* C2 witness: the pass is over, one node was searched and not found, a node
\* walked after it was found and holds text.
C2_Witness ==
    /\ mpc = "done"
    /\ \E i, j \in 1..Len(located) :
          /\ i < j
          /\ located[i].match = <<>>
          /\ located[j].match # <<>>
          /\ HasText(structure, located[j].node)
          /\ ~HasText(structure, located[i].node)

\* C3 as stated: the spans handed to nodes, in the order of the walk, are
\* pairwise disjoint ranges of the text at increasing offsets.
C3_SpansDisjointIncreasing ==
    \A i, j \in 1..Len(assigned) :
        (i < j /\ assigned[i].node.level # "start") =>
            assigned[i].to <= assigned[j].from

\* A chapter or section was searched and its heading not found.
NotFoundAbove(i) ==
    located[i].match = <<>> /\ located[i].node.level \in {"chapter", "section"}

\* C4 as stated: when the heading of a chapter or section is not found, each
\* of its child sections or subsections is still searched.
C4_ChildrenStillSearched ==
    mpc = "done" =>
        \A i \in 1..Len(located) :
            NotFoundAbove(i) =>
                \A d \in Descendants(structure, located[i].node) : IsSearched(d)

\* C10: the pass adds `text` and `length` to nodes and changes nothing else:
\* keys, nesting, order, titles and start pages stay as they were.
C10_SkeletonUnchanged == [][Skeleton(structure') = Skeleton(structure)]_vars

\* C10 witness: the pass is over and wrote text on a chapter that has
\* sections and on one of its sections.
C10_Witness ==
    /\ mpc = "done"
    /\ \E c \in 1..Len(structure) :
          /\ structure[c].text # <<>>
          /\ \E x \in 1..Len(structure[c].sections) :
                structure[c].sections[x].text # <<>>

(***************************************************************************)
(* Properties of the hierarchy builder, checked under Spec.  The shapes of *)
(* titles are stated here on the title itself, not through the parsers.    *)
(***************************************************************************)
AllDigits(s) == Len(s) > 0 /\ \A k \in 1..Len(s) : IsDigit(s[k])

\* Number of dot-separated digit groups of a numbering such as "3", "3.2",
\* "3.2.1" or "3.2.", and 0 when num is no such numbering.
GroupCount(num) ==
    LET body == IF Len(num) > 0 /\ num[Len(num)] = "."
                THEN SubSeq(num, 1, Len(num) - 1) ELSE num
    IN IF /\ Len(body) > 0
          /\ \A k \in 1..Len(body) : IsDigit(body[k]) \/ body[k] = "."
          /\ body[1] # "." /\ body[Len(body)] # "."
          /\ \A k \in 1..(Len(body) - 1) : ~(body[k] = "." /\ body[k + 1] = ".")
       THEN 1 + Cardinality({k \in 1..Len(body) : body[k] = "."})
       ELSE 0

HasSpace(title) == \E k \in 1..Len(title) : IsSpace(title[k])

FirstSpace(title) ==
    CHOOSE k \in 1..Len(title) :
        IsSpace(title[k]) /\ \A j \in 1..(k - 1) : ~IsSpace(title[j])

\* What stands before the first whitespace of the title, "" without one.
NumberingPrefix(title) ==
    IF HasSpace(title) THEN SubSeq(title, 1, FirstSpace(title) - 1) ELSE <<>>

\* The title after its numbering prefix.
RemainingTitle(title) == SubSeq(title, FirstSpace(title), Len(title))

\* The chapter numerals a level-1 title carries: a full run of digits at
\* the start of the title, or after the chapter word and blanks.
ChapterNumerals(title) ==
    {SubSeq(title, pq[1], pq[2]) : pq \in
        {pq \in (1..Len(title)) \X (1..Len(title)) :
            /\ pq[1] <= pq[2]
            /\ AllDigits(SubSeq(title, pq[1], pq[2]))
            /\ (pq[2] = Len(title) \/ ~IsDigit(title[pq[2] + 1]))
            /\ \/ pq[1] = 1
               \/ /\ pq[1] > Len(ChapterWord)
                  /\ WordAt(title, 1, ChapterWord)
                  /\ \A k \in (Len(ChapterWord) + 1)..(pq[1] - 1) : IsSpace(title[k])}}

\* One iteration of the loop has just run, on `entry'`.
EntryStep == count' = count + 1

\* C5 as stated: extract_structure never aborts, whatever the TOC.
C5_NeverAborts == bpc # "raised"

\* C6 as stated: once a level-1 entry has created a chapter, the current
\* section is unset.
C6_ChapterResetsSection ==
    (entry # <<>> /\ entry[1] = 1 /\ ChapterNumerals(entry[2]) # {}) =>
        current_section = <<>>

\* C7 as stated: a level 2 or 3 entry whose numbering prefix has one or two
\* digit groups, processed while a chapter is current, leaves under that
\* chapter a section keyed by the prefix, with the cleaned remaining title and
\* no subsections, and makes it the current section.
C7_SectionCreated ==
    [][(/\ EntryStep
        /\ entry'[1] \in {2, 3}
        /\ GroupCount(NumberingPrefix(entry'[2])) \in {1, 2}
        /\ current_chapter # <<>>) =>
            LET num == NumberingPrefix(entry'[2])
                ch == structure'[IndexOf(structure', current_chapter[1])]
                sec == ch.sections[IndexOf(ch.sections, num)]
            IN /\ current_chapter' = current_chapter
               /\ HasKey(ch.sections, num)
               /\ sec.title = clean_text(RemainingTitle(entry'[2]))
               /\ sec.subsections = <<>>
               /\ current_section' = <<num>>]_vars

\* C8 as stated: a level 2 or 3 entry whose numbering prefix has three digit
\* groups, processed while a section is current, leaves a subsection keyed by
\* the prefix under that section of the current chapter, and nothing else in
\* the tree is touched.
C8_SubsectionCreated ==
    [][(/\ EntryStep
        /\ entry'[1] \in {2, 3}
        /\ GroupCount(NumberingPrefix(entry'[2])) = 3
        /\ current_chapter # <<>>
        /\ current_section # <<>>) =>
            LET num == NumberingPrefix(entry'[2])
                ci == IndexOf(structure', current_chapter[1])
                secs == structure'[ci].sections
                si == IndexOf(secs, current_section[1])
            IN /\ bpc' = "loop"
               /\ HasKey(secs, current_section[1])
               /\ HasKey(secs[si].subsections, num)
               /\ [structure' EXCEPT ![ci].sections[si].subsections =
                        structure[ci].sections[si].subsections] = structure]_vars

\* C9: every chapter key is a string of digits; a step adds a chapter key
\* only for a level-1 entry, and the key is the numeral its title carries;
\* a level-1 entry whose title has no digit changes neither the tree nor the
\* current chapter nor the current section.
C9_ChapterKeys ==
    /\ [](\A c \in 1..Len(structure) : AllDigits(structure[c].key))
    /\ [][EntryStep =>
            /\ \A k \in Keys(structure') \ Keys(structure) :
                  /\ entry'[1] = 1
                  /\ k \in ChapterNumerals(entry'[2])
                  /\ current_chapter' = <<k>>
            /\ (entry'[1] = 1 /\ ChapterNumerals(entry'[2]) # {}) =>
                  \E k \in ChapterNumerals(entry'[2]) :
                      HasKey(structure', k) /\ current_chapter' = <<k>>
            /\ (entry'[1] = 1 /\ \A k \in 1..Len(entry'[2]) : ~IsDigit(entry'[2][k])) =>
                  /\ structure' = structure
                  /\ current_chapter' = current_chapter
                  /\ current_section' = current_section]_vars

\* C9 witness: a level-1 entry without a digit was the last one processed,
\* in a run that has a chapter and a current section.
C9_Witness ==
    /\ entry # <<>>
    /\ entry[1] = 1
    /\ \A k \in 1..Len(entry[2]) : ~IsDigit(entry[2][k])
    /\ Len(structure) >= 2
    /\ current_section # <<>>

(***************************************************************************)
(* Further properties of the text segmenter, checked under SpecMatch.      *)
(***************************************************************************)
\* The characters of s that are left when the whitespace at both ends is
\* dropped, counted on s itself.
TrimmedCount(s) ==
    LET inner == {k \in 1..Len(s) : ~IsSpace(s[k])}
    IN IF inner = {} THEN 0
       ELSE (CHOOSE hi \in inner : \A k \in inner : k <= hi)
            - (CHOOSE lo \in inner : \A k \in inner : lo <= k) + 1

\* C11: a node has `text` if and only if it has `length`; `length` is the
\* number of characters of `text` without the whitespace at its ends, `text`
\* itself being an untrimmed span of the text; `length` is 0 only when
\* `text` is all whitespace.
C11_LengthIsTrimmedCount ==
    \A n \in AllNodes(structure) :
        LET nd == NodeOf(structure, n)
        IN /\ (nd.text = <<>>) <=> (nd.length = <<>>)
           /\ nd.text # <<>> =>
                /\ nd.length[1] = TrimmedCount(nd.text[1])
                /\ \E i \in 1..Len(assigned) :
                      /\ assigned[i].node = n
                      /\ nd.text[1] = SubSeq(text, assigned[i].from + 1, assigned[i].to)
                /\ nd.length[1] = 0 =>
                      /\ Len(nd.text[1]) > 0
                      /\ \A k \in 1..Len(nd.text[1]) : IsSpace(nd.text[1][k])

\* C11 witness: the pass is over; one node holds a text with whitespace at
\* an end and a shorter length, another an all-whitespace text of length 0.
C11_Witness ==
    /\ mpc = "done"
    /\ \E n, m \in AllNodes(structure) :
          /\ HasText(structure, n)
          /\ HasText(structure, m)
          /\ NodeOf(structure, m).length = <<0>>
          /\ NodeOf(structure, n).length[1] > 0
          /\ NodeOf(structure, n).length[1] < Len(NodeOf(structure, n).text[1])

\* The searches so far that found their heading, as positions of `located`.
FoundSoFar == {i \in 1..Len(located) : located[i].match # <<>>}

\* The latest search that found its heading.
LastFound == CHOOSE i \in FoundSoFar : \A j \in FoundSoFar : j <= i

\* C14: at every point of the walk the active context is the front-matter
\* sentinel and the cursor 0 while no heading has been found, and afterwards
\* they are the node whose heading was found most recently and the end of
\* that heading's match.
C14_ActiveContextIsLastFound ==
    IF FoundSoFar = {}
    THEN prev_level = [level |-> "start"] /\ prev_match_end = 0
    ELSE /\ prev_level = located[LastFound].node
         /\ prev_match_end = located[LastFound].match[2]

\* C14 witness: the latest search found nothing, an earlier one did, and the
\* heading found last lies before the one found before it, so the cursor
\* has moved back.
C14_Witness ==
    /\ Len(located) >= 3
    /\ located[Len(located)].match = <<>>
    /\ \E i, j \in FoundSoFar :
          /\ i < j
          /\ j = LastFound
          /\ located[j].match[2] < located[i].match[2]
          /\ prev_match_end = located[j].match[2]

\* The search of this step found its heading, and the span between the
\* cursor and the heading holds nothing but whitespace (or nothing at all,
\* as when the heading starts before the cursor).
FoundAfterBlank ==
    /\ Len(located') = Len(located) + 1
    /\ located'[Len(located')].match # <<>>
    /\ Strip(Slice(text, prev_match_end, located'[Len(located')].match[1])) = <<>>

\* A text of length 0 is held only by the active context once the pass is
\* over, and is the tail of the text.
ZeroLengthOnlyFromTail ==
    \A n \in AllNodes(structure) :
        NodeOf(structure, n).length = <<0>> =>
            /\ mpc = "done"
            /\ n = prev_level
            /\ NodeOf(structure, n).text = <<Slice(text, prev_match_end, Len(text))>>

\* C15: when a heading is found after a span that is blank, nothing is
\* assigned: the tree is unchanged and the active context still has no text;
\* the cursor moves to the end of the match and the found node becomes the
\* active context.  A text of length 0 is assigned by the tail flush only.
C15_BlankSpanNotAssigned ==
    /\ []ZeroLengthOnlyFromTail
    /\ [][FoundAfterBlank =>
            /\ structure' = structure
            /\ assigned' = assigned
            /\ prev_level.level # "start" => ~HasText(structure', prev_level)
            /\ prev_match_end' = located'[Len(located')].match[2]
            /\ prev_level' = located'[Len(located')].node]_vars

\* C15 witness: a heading was found that starts before the cursor left by
\* the heading found before it, whose node was left without text; the found
\* node then received the whitespace tail, of length 0, from the flush.
C15_Witness ==
    /\ mpc = "done"
    /\ \E i, j \in FoundSoFar :
          /\ i < j
          /\ \A k \in FoundSoFar : ~(i < k /\ k < j)
          /\ located[j].match[1] < located[i].match[2]
          /\ ~HasText(structure, located[i].node)
          /\ located[j].node = prev_level
          /\ NodeOf(structure, prev_level).length = <<0>>

\* No node of the tree is named by two assignments of the pass.
AssignedOnce ==
    \A i, j \in 1..Len(assigned) :
        (i # j /\ assigned[i].node.level # "start") => assigned[i].node # assigned[j].node

\* C16: during a pass a node is assigned text at most once; a text that has
\* been set is not changed by any later step.
C16_TextSetOnce ==
    /\ []AssignedOnce
    /\ [][\A n \in AllNodes(structure) :
             HasText(structure, n) =>
                 /\ NodeOf(structure', n).text = NodeOf(structure, n).text
                 /\ NodeOf(structure', n).length = NodeOf(structure, n).length]_vars

\* C16 witness: the pass is over, two nodes hold text, and a heading was
\* found at a place of the text before a heading found earlier in the walk.
C16_Witness ==
    /\ mpc = "done"
    /\ \E n, m \in AllNodes(structure) :
          n # m /\ HasText(structure, n) /\ HasText(structure, m)
    /\ \E i, j \in FoundSoFar :
          i < j /\ located[j].match[1] < located[i].match[1]

(***************************************************************************)
(* Further properties of the hierarchy builder, checked under Spec.        *)
(***************************************************************************)
\* The step processed a TOC entry and the tree has no node for it: the
\* entry was dropped.
EntryDropped ==
    /\ EntryStep
    /\ bpc' = "loop"
    /\ structure' = structure

\* C12 as stated: every omission is accompanied by a warning; here, for the
\* builder: a step that drops a TOC entry adds a warning to the log.
C12_DropsAreWarned == [][EntryDropped => Len(warnings') > Len(warnings)]_vars

(***************************************************************************)
(* StructureExtractor._get_next_section_start.                             *)
(***************************************************************************)
\* x.split('.'): the pieces of x between its periods, empty pieces included.
RECURSIVE SplitDot(_)
SplitDot(x) ==
    LET dots == {k \in 1..Len(x) : x[k] = "."}
    IN IF dots = {} THEN <<x>>
       ELSE LET d == CHOOSE k \in dots : \A j \in dots : k <= j
            IN <<SubSeq(x, 1, d - 1)>> \o SplitDot(SubSeq(x, d + 1, Len(x)))

DigitValue(c) ==
    CASE c = "0" -> 0 [] c = "1" -> 1 [] c = "2" -> 2 [] c = "3" -> 3 [] c = "4" -> 4
      [] c = "5" -> 5 [] c = "6" -> 6 [] c = "7" -> 7 [] c = "8" -> 8 [] c = "9" -> 9

\* int(g) raises ValueError for a piece that is no run of digits, the empty
\* piece included.
IntRaises(g) == Len(g) = 0 \/ \E k \in 1..Len(g) : ~IsDigit(g[k])

\* int(g) of a run of digits.
RECURSIVE ToInt(_)
ToInt(g) ==
    IF Len(g) = 0 THEN 0
    ELSE 10 * ToInt(SubSeq(g, 1, Len(g) - 1)) + DigitValue(g[Len(g)])

\* The sort key of line 116: list(map(int, x.split('.'))).
SortKey(x) == [k \in 1..Len(SplitDot(x)) |-> ToInt(SplitDot(x)[k])]

\* The sort key cannot be computed: some piece of x is no integer.
SortKeyRaises(x) == \E k \in 1..Len(SplitDot(x)) : IntRaises(SplitDot(x)[k])

\* Python's order on lists of integers: a < b.
RECURSIVE ListLess(_, _)
ListLess(a, b) ==
    IF Len(b) = 0 THEN FALSE
    ELSE IF Len(a) = 0 THEN TRUE
    ELSE IF a[1] # b[1] THEN a[1] < b[1]
    ELSE ListLess(Tail(a), Tail(b))

\* sorted(sections.keys(), key=...): a stable sort of the keys.
SortedKeys(sections) ==
    LET n == Len(sections)
        rank(i) == 1 + Cardinality({j \in 1..n :
                        \/ ListLess(SortKey(sections[j].key), SortKey(sections[i].key))
                        \/ /\ SortKey(sections[j].key) = SortKey(sections[i].key)
                           /\ j < i})
    IN [r \in 1..n |-> sections[CHOOSE i \in 1..n : rank(i) = r].key]

\* _get_next_section_start: the outcome is a record saying whether the call
\* raised and, when it returned, the page it returned.  The sort of line 116
\* is outside the try block, so its ValueError reaches the caller; inside the
\* block an unknown current_num or a last key gives default_end_page.
get_next_section_start(sections, current_num, default_end_page) ==
    IF \E i \in 1..Len(sections) : SortKeyRaises(sections[i].key)
    THEN [raised |-> TRUE, value |-> <<>>]
    ELSE LET section_numbers == SortedKeys(sections)
             at == {r \in 1..Len(section_numbers) : section_numbers[r] = current_num}
         IN IF at = {} THEN [raised |-> FALSE, value |-> <<default_end_page>>]
            ELSE LET current_index == CHOOSE r \in at : \A q \in at : r <= q
                 IN IF current_index + 1 > Len(section_numbers)
                    THEN [raised |-> FALSE, value |-> <<default_end_page>>]
                    ELSE [raised |-> FALSE,
                          value |-> <<sections[IndexOf(sections,
                                        section_numbers[current_index + 1])].start_page>>]

\* Section and subsection entries whose keys differ in shape and order.
E_s110 == <<2, <<"1", ".", "1", "0", " ", "t">>>>                   \* "1.10 t"
E_s2 == <<2, <<"2", " ", "t">>>>                                    \* "2 t"
E_ss112 == <<3, <<"1", ".", "1", ".", "2", " ", "t">>>>             \* "1.1.2 t"

NextEntries == {E_ch2, E_s11, E_s12, E_s110, E_s2, E_ss111, E_ss112}

\* All lists of at most n entries of the set E.
RECURSIVE EntryLists(_, _)
EntryLists(E, n) ==
    IF n = 0 THEN {<<>>}
    ELSE EntryLists(E, n - 1) \cup
         {Append(es, e) : es \in {l \in EntryLists(E, n - 1) : Len(l) = n - 1}, e \in E}

\* TOCs of a first chapter followed by chapters, sections and subsections.
ContentTocs ==
    {Paged(<<E_ch1>> \o es) : es \in EntryLists(NextEntries, MaxToc - 1) \ {<<>>}}

DigitChar(d) == <<"0", "1", "2", "3", "4", "5", "6", "7", "8", "9">>[d + 1]

\* str(n) for n >= 0.
RECURSIVE Str(_)
Str(n) == IF n < 10 THEN <<DigitChar(n)>> ELSE Str(n \div 10) \o <<DigitChar(n % 10)>>

\* The documents extract_content reads: every page the TOC points to is in
\* the document, and the text of a page is its number.
ContentDocs == {[p \in 1..n |-> Str(p)] : n \in MaxToc..(MaxToc + 1)}

\* _get_content: the texts of the pages start_page .. stop_page - 1 (0-based),
\* joined by newlines.
get_content(d, start_page, stop_page) ==
    JoinLines([k \in 1..(IF stop_page > start_page THEN stop_page - start_page ELSE 0)
                  |-> d[start_page + k]])

\* Line 86: the start page of the chapter numbered one more, or else the
\* page count of the document.
NextChapterStart(st, chapter_num, page_count) ==
    LET next_num == Str(ToInt(chapter_num) + 1)
    IN IF HasKey(st, next_num) THEN st[IndexOf(st, next_num)].start_page ELSE page_count

\* extract_content is called with the tree extract_structure returned for
\* one of the TOCs, on one of the documents.
InitContent ==
    /\ \E t \in ContentTocs :
           /\ ~extract_structure(t).raised
           /\ doc_toc = t
           /\ structure = extract_structure(t).structure
    /\ doc \in ContentDocs
    /\ cpos = <<1, 0, 0>>
    /\ end_page = <<>>
    /\ section_end_page = <<>>
    /\ cpc = "walk"
    /\ result = <<>>
    /\ first = <<>>
    /\ current_chapter = <<>>
    /\ current_section = <<>>
    /\ entry = <<>>
    /\ count = 0
    /\ bpc = "returned"
    /\ MatchIdle

\* One iteration of the chapter loop, up to the section loop (lines 84-91).
ContentChapter ==
    /\ cpc = "walk"
    /\ cpos[2] = 0
    /\ cpos[1] <= Len(structure)
    /\ LET ci == cpos[1]
           next_chapter_start == NextChapterStart(structure, structure[ci].key, Len(doc))
       IN /\ end_page' = <<next_chapter_start>>
          /\ structure' = [structure EXCEPT ![ci].content =
                              <<get_content(doc, structure[ci].start_page, next_chapter_start)>>]
          /\ cpos' = IF Len(structure[ci].sections) > 0 THEN <<ci, 1, 0>> ELSE <<ci + 1, 0, 0>>
    /\ UNCHANGED <<doc, section_end_page, cpc, result, doc_toc, first>>
    /\ UNCHANGED <<current_chapter, current_section, entry, count, bpc>>
    /\ UNCHANGED matchVars

\* One iteration of the section loop, up to the subsection loop (lines
\* 94-99).  A ValueError of the lookup ends extract_content.
ContentSection ==
    /\ cpc = "walk"
    /\ cpos[2] > 0
    /\ cpos[3] = 0
    /\ LET ci == cpos[1]
           si == cpos[2]
           sections == structure[ci].sections
           out == get_next_section_start(sections, sections[si].key, end_page[1])
       IN /\ result' = [sections |-> sections, current_num |-> sections[si].key,
                        default_end_page |-> end_page[1], out |-> out]
          /\ IF out.raised
             THEN /\ cpc' = "raised"
                  /\ UNCHANGED <<structure, cpos, section_end_page>>
             ELSE /\ section_end_page' = <<Min(out.value[1], end_page[1])>>
                  /\ structure' = [structure EXCEPT ![ci].sections[si].content =
                                      <<get_content(doc, sections[si].start_page,
                                                    Min(out.value[1], end_page[1]))>>]
                  /\ cpos' = IF Len(sections[si].subsections) > 0
                             THEN <<ci, si, 1>> ELSE NextSection(structure, ci, si)
                  /\ UNCHANGED cpc
    /\ UNCHANGED <<doc, end_page, doc_toc, first>>
    /\ UNCHANGED <<current_chapter, current_section, entry, count, bpc>>
    /\ UNCHANGED matchVars

\* One iteration of the subsection loop (lines 102-107): the lookup gets the
\* section's end page as its default.
ContentSubsection ==
    /\ cpc = "walk"
    /\ cpos[3] > 0
    /\ LET ci == cpos[1]
           si == cpos[2]
           ui == cpos[3]
           subsections == structure[ci].sections[si].subsections
           out == get_next_section_start(subsections, subsections[ui].key,
                                         section_end_page[1])
       IN /\ result' = [sections |-> subsections, current_num |-> subsections[ui].key,
                        default_end_page |-> section_end_page[1], out |-> out]
          /\ IF out.raised
             THEN /\ cpc' = "raised"
                  /\ UNCHANGED <<structure, cpos>>
             ELSE /\ structure' =
                        [structure EXCEPT ![ci].sections[si].subsections[ui].content =
                            <<get_content(doc, subsections[ui].start_page,
                                          Min(out.value[1], section_end_page[1]))>>]
                  /\ cpos' = IF ui < Len(subsections)
                             THEN <<ci, si, ui + 1>> ELSE NextSection(structure, ci, si)
                  /\ UNCHANGED cpc
    /\ UNCHANGED <<doc, end_page, section_end_page, doc_toc, first>>
    /\ UNCHANGED <<current_chapter, current_section, entry, count, bpc>>
    /\ UNCHANGED matchVars

\* The chapters are exhausted: extract_content returns the tree (109-110).
ContentReturn ==
    /\ cpc = "walk"
    /\ cpos[1] > Len(structure)
    /\ cpc' = "returned"
    /\ UNCHANGED <<doc, cpos, end_page, section_end_page, result, doc_toc, first>>
    /\ UNCHANGED builderVars
    /\ UNCHANGED matchVars

NextContent == ContentChapter \/ ContentSection \/ ContentSubsection \/ ContentReturn

SpecContent == InitContent /\ [][NextContent]_vars

\* The digit groups of a key, a trailing period set aside.
KeyGroups(x) ==
    LET body == IF Len(x) > 0 /\ x[Len(x)] = "." THEN SubSeq(x, 1, Len(x) - 1) ELSE x
    IN [k \in 1..Len(SplitDot(body)) |-> ToInt(SplitDot(body)[k])]

\* The keys of the collection that come after x in numeric order.
LaterKeys(sections, x) ==
    {i \in 1..Len(sections) : ListLess(KeyGroups(x), KeyGroups(sections[i].key))}

\* C17 as stated: for a collection extract_structure produced and a key of
\* it, _get_next_section_start does not raise; it returns the start page of
\* the key that follows in numeric order of the groups, and default_end_page
\* when no key follows.
C17_NextInNumericOrder ==
    result # <<>> =>
        /\ ~result.out.raised
        /\ LET later == LaterKeys(result.sections, result.current_num)
           IN IF later = {}
              THEN result.out.value = <<result.default_end_page>>
              ELSE \E i \in later :
                      /\ \A j \in later :
                            ~ListLess(KeyGroups(result.sections[j].key),
                                      KeyGroups(result.sections[i].key))
                      /\ result.out.value = <<result.sections[i].start_page>>

\* The same for collections whose keys have no trailing period.
C17_WithoutTrailingPeriod ==
    (/\ result # <<>>
     /\ \A i \in 1..Len(result.sections) :
           result.sections[i].key[Len(result.sections[i].key)] # ".")
        => C17_NextInNumericOrder

(***************************************************************************)
(* Two calls of StructureExtractor.extract_structure on the same document. *)
(***************************************************************************)
E_plain == <<1, <<"t">>>>                                           \* "t"

TwiceEntries == {E_ch1, E_ch2, E_s11, E_ss111, E_plain}

\* The TOCs of the document: doc.get_toc() returns the same list each time.
TwiceTocs == {Paged(es) : es \in EntryLists(TwiceEntries, MaxToc)}

\* The first call starts on one of the TOCs.
InitTwice ==
    /\ doc_toc \in TwiceTocs
    /\ first = <<>>
    /\ ContentIdle
    /\ structure = <<>>
    /\ current_chapter = <<>>
    /\ current_section = <<>>
    /\ entry = <<>>
    /\ count = 0
    /\ bpc = "loop"
    /\ MatchIdle

\* One iteration of the loop of line 29 over the document's TOC.
ReplayEntry ==
    /\ count < Len(doc_toc)
    /\ ProcessEntry(doc_toc[count + 1][1], doc_toc[count + 1][2], doc_toc[count + 1][3])

\* A second call that finds current_section as the first call left it.
CallAgain_KeepsSection ==
    /\ first = <<>>
    /\ \/ bpc = "loop" /\ count = Len(doc_toc)
       \/ bpc = "raised"
    /\ first' = <<[structure |-> structure, raised |-> bpc = "raised"]>>
    /\ structure' = <<>>
    /\ current_chapter' = <<>>
    /\ current_section' = current_section
    /\ entry' = <<>>
    /\ count' = 0
    /\ bpc' = "loop"
    /\ UNCHANGED doc_toc
    /\ UNCHANGED contentVars
    /\ UNCHANGED matchVars

\* The first call is over (it returned or raised), the caller keeps what it
\* gave, and the second call starts: lines 22-27 open the document and make
\* fresh locals.
CallAgain ==
    /\ first = <<>>
    /\ \/ bpc = "loop" /\ count = Len(doc_toc)
       \/ bpc = "raised"
    /\ first' = <<[structure |-> structure, raised |-> bpc = "raised"]>>
    /\ structure' = <<>>
    /\ current_chapter' = <<>>
    /\ current_section' = <<>>
    /\ entry' = <<>>
    /\ count' = 0
    /\ bpc' = "loop"
    /\ UNCHANGED doc_toc
    /\ UNCHANGED contentVars
    /\ UNCHANGED matchVars

\* The second call returns once the TOC is consumed.
ReturnAgain ==
    /\ first # <<>>
    /\ count = Len(doc_toc)
    /\ Return

NextTwice == ReplayEntry \/ CallAgain \/ ReturnAgain

SpecTwice == InitTwice /\ [][NextTwice]_vars

\* C13: when the second call on the same TOC is over, it ended as the first
\* did and its tree is the first one's: same keys in the same order at every
\* level, same titles.
C13_SecondCallSameTree ==
    (first # <<>> /\ bpc \in {"returned", "raised"}) =>
        /\ (bpc = "raised") = first[1].raised
        /\ structure = first[1].structure

\* C13 witness: the second call has returned a tree with a subsection, from
\* a TOC of which an entry was dropped.
C13_Witness ==
    /\ first # <<>>
    /\ bpc = "returned"
    /\ Cardinality(AllNodes(structure)) < Len(doc_toc)
    /\ \E n \in AllNodes(structure) : n.level = "subsection"

====
